---- MODULE Spec2Model ----
(***************************************************************************)
(* GuardianSOS API (src/server.js): the in-memory SOS session store, the   *)
(* share-token index and the four JSON routes start / update / end /       *)
(* read-by-token, and the SMS broadcast of the start route (smsService.js, *)
(* src/unnamed/part_000), as a state machine.                              *)
(*                                                                         *)
(* Representation of JavaScript values:                                    *)
(*   - an optional value (null / undefined, or a value v) is the sequence  *)
(*     <<>> or <<v>>;                                                      *)
(*   - a time value is a number of milliseconds, NaN is -1;                *)
(*   - an ISO-8601 string is the record of its day / hour / minute /       *)
(*     second / millisecond fields;                                        *)
(*   - a phone or a contact name is a sequence of one-character strings;   *)
(*   - a session id is a positive integer and 0 is a missing (falsy) id   *)
(*     in a request; a share token is an integer above 100.                *)
(* uuidv4() and crypto.randomBytes(16) are modelled as fresh values: the    *)
(* first value not issued before. The handlers only compare ids and tokens *)
(* for equality, so which fresh value is drawn makes no difference.        *)
(***************************************************************************)
EXTENDS Integers, Sequences, FiniteSets, TLC

VARIABLES
    sessions,       \* server.js:17   Map sosId -> session
    tokenToSosId,   \* server.js:18   Map shareToken -> sosId
    now,            \* Date.now(), milliseconds since the server started
    last,           \* the request handled by the last step and its response
    accepted,       \* history variable: per session, what the calls that
                    \* returned success were given and returned
    twilio,         \* part_000:8-14  client && fromNumber: SMS is configured
    sms             \* per sosId, the broadcast its start issued and the
                    \* state of each of its sends

vars == <<sessions, tokenToSosId, now, last, accepted, twilio, sms>>

-----------------------------------------------------------------------------
(* Bounds *)

MaxSessions == 2
MaxHistory == 2
MaxSkew == 1

-----------------------------------------------------------------------------
(* JavaScript values *)

None == <<>>
Some(v) == <<v>>
IsNone(o) == o = <<>>
Val(o) == o[1]

NaN == 0 - 1

LIVE_LINK_TTL_MS == 1000 * 60 * 60 * 6

\* A timestamp field of a request body: absent (falsy), a string that is no
\* date, or a string denoting the instant t.
AbsentTime == [k |-> "absent", t |-> 0]
GarbageTime == [k |-> "garbage", t |-> 0]
IsoTime(t) == [k |-> "iso", t |-> t]

Truthy(x) == x.k # "absent"

\* new Date(x).getTime()
NewDate(x) == IF x.k = "iso" THEN x.t ELSE NaN

\* Date.prototype.toISOString throws RangeError on an invalid date
Throws(tv) == tv = NaN

toISOString(tv) ==
    [day |-> tv \div 86400000,
     hour |-> (tv \div 3600000) % 24,
     minute |-> (tv \div 60000) % 60,
     second |-> (tv \div 1000) % 60,
     milli |-> tv % 1000]

\* Date.parse of a string toISOString produced
DateParse(iso) ==
    iso.day * 86400000 + iso.hour * 3600000 + iso.minute * 60000
        + iso.second * 1000 + iso.milli

-----------------------------------------------------------------------------
(* Request inputs *)

Ids == 1..MaxSessions
Tokens == {100 + i : i \in Ids}

\* the sosId of a request when n sessions can exist: missing (0), an id a
\* start can return, or an id no start returns
SosIdInputs(n) == 0..(n + 1)

\* the token of a read when n sessions can exist; no start returns 100
TokenInputs(n) == {100 + i : i \in 0..n}

DisplayNames == {"", "Alice"}
ClientInstants == {90061001}
TimeInputs == {AbsentTime, GarbageTime} \cup {IsoTime(t) : t \in ClientInstants}
Coords == {None, Some(7)}
\* bodies of update requests: no latitude and no updatedAt; both coordinates
\* and an ISO updatedAt; an updatedAt that is no date
UpdateBodies ==
    {[latitude |-> None, longitude |-> Some(7), updatedAt |-> AbsentTime],
     [latitude |-> Some(7), longitude |-> Some(7), updatedAt |-> IsoTime(90061001)],
     [latitude |-> Some(7), longitude |-> Some(7), updatedAt |-> GarbageTime]}

\* bodies of end requests
EndBodies ==
    {[endedAt |-> AbsentTime, reason |-> ""],
     [endedAt |-> IsoTime(90061001), reason |-> "safe"],
     [endedAt |-> GarbageTime, reason |-> "safe"],
     [endedAt |-> GarbageTime, reason |-> ""]}

\* contacts of a start body: not an array, or an array of entries; an entry
\* is null or an object whose phone / name is a string or something else
NullEntry == [null |-> TRUE, phone |-> None, name |-> None]
Entry(phone, name) == [null |-> FALSE, phone |-> phone, name |-> name]
NotArray == [isArray |-> FALSE, items |-> <<>>]
Array(items) == [isArray |-> TRUE, items |-> items]
ContactInputs ==
    {Array(<<NullEntry,
             Entry(Some(<<" ", " ">>), Some(<<"B">>)),
             Entry(Some(<<" ", "+", "1", " ">>), Some(<<" ", "A">>)),
             Entry(None, None)>>)}

\* contacts of the start bodies of the notification runs: not an array, an
\* array whose entries are all dropped, one with a single usable phone among
\* unusable entries, and one with two usable phones
NotifyContactInputs ==
    ContactInputs \cup
    {NotArray,
     Array(<<NullEntry, Entry(Some(<<" ">>), Some(<<"B">>))>>),
     Array(<<Entry(Some(<<"+", "1">>), None),
             NullEntry,
             Entry(Some(<<"+", "2", " ">>), Some(<<"B", " ">>))>>)}

-----------------------------------------------------------------------------
(* Helpers of the start handler *)

RECURSIVE TrimStart(_)
TrimStart(s) == IF s # <<>> /\ Head(s) = " " THEN TrimStart(Tail(s)) ELSE s

RECURSIVE TrimEnd(_)
TrimEnd(s) ==
    IF s # <<>> /\ s[Len(s)] = " " THEN TrimEnd(SubSeq(s, 1, Len(s) - 1)) ELSE s

\* String.prototype.trim
Trim(s) == TrimEnd(TrimStart(s))

\* mutant: the phone is tested for emptiness before it is trimmed
NormalizeContactTestsUntrimmed(c) ==
    IF c.null \/ IsNone(c.phone) \/ Val(c.phone) = <<>> THEN None
    ELSE Some([name |-> IF IsNone(c.name) THEN None ELSE Some(Trim(Val(c.name))),
               phone |-> Trim(Val(c.phone))])

\* the callback of contacts.map: null, or { name, phone }
NormalizeContact(c) ==
    IF c.null THEN None
    ELSE LET phone == IF IsNone(c.phone) THEN <<>> ELSE Trim(Val(c.phone))
         IN IF phone = <<>> THEN None
            ELSE Some([name |-> IF IsNone(c.name) THEN None ELSE Some(Trim(Val(c.name))),
                       phone |-> phone])

RECURSIVE FilterBoolean(_)
FilterBoolean(s) ==
    IF s = <<>> THEN <<>>
    ELSE IF IsNone(Head(s)) THEN FilterBoolean(Tail(s))
         ELSE <<Val(Head(s))>> \o FilterBoolean(Tail(s))

normalizedContacts(contacts) ==
    IF contacts.isArray
    THEN FilterBoolean([i \in 1..Len(contacts.items) |-> NormalizeContact(contacts.items[i])])
    ELSE <<>>

\* a session id no earlier start drew
uuidv4 == CHOOSE id \in Ids \ DOMAIN sessions : \A other \in Ids \ DOMAIN sessions : id <= other

\* mutant: every start draws the same share token
generateShareTokenRepeats == CHOOSE t \in Tokens : \A other \in Tokens : t <= other

\* a share token no earlier start drew
generateShareToken ==
    CHOOSE t \in Tokens \ DOMAIN tokenToSosId :
        \A other \in Tokens \ DOMAIN tokenToSosId : t <= other

\* mutant: a location is built when either coordinate is present
InitialLocationEitherCoordinate(latitude, longitude, timestamp) ==
    IF ~IsNone(latitude) \/ ~IsNone(longitude)
    THEN Some([latitude |-> latitude, longitude |-> longitude, timestamp |-> timestamp])
    ELSE None

\* latitude != null && longitude != null ? { latitude, longitude, timestamp } : null
InitialLocation(latitude, longitude, timestamp) ==
    IF ~IsNone(latitude) /\ ~IsNone(longitude)
    THEN Some([latitude |-> latitude, longitude |-> longitude, timestamp |-> timestamp])
    ELSE None

\* mutant: the TTL runs from the client's startedAt
ExpiresAtFromStartedAt(clock, startedAt) ==
    toISOString(NewDate(startedAt) + LIVE_LINK_TTL_MS)

\* new Date(Date.now() + LIVE_LINK_TTL_MS).toISOString()
ExpiresAt(clock, startedAt) == toISOString(clock + LIVE_LINK_TTL_MS)

NewSession(sosId, shareToken, displayName, latitude, longitude, startedAt, contacts) ==
    LET timestamp == toISOString(NewDate(startedAt))
        location == InitialLocation(latitude, longitude, timestamp)
    IN [sosId |-> sosId,
        displayName |-> displayName,
        status |-> "active",
        startedAt |-> timestamp,
        lastLocation |-> location,
        locationHistory |-> IF IsNone(location) THEN <<>> ELSE <<Val(location)>>,
        endedAt |-> None,
        endReason |-> None,
        shareToken |-> shareToken,
        expiresAt |-> ExpiresAt(now, startedAt),
        contacts |-> normalizedContacts(contacts)]

\* Map.prototype.set
MapSet(m, k, v) == [x \in DOMAIN m \cup {k} |-> IF x = k THEN v ELSE m[x]]

\* mutant: only the display name is required
ValidNameOnly(displayName, startedAt) == displayName # ""

\* the negation of  !displayName || !startedAt
Valid(displayName, startedAt) == displayName # "" /\ Truthy(startedAt)

\* the text of the SOS message: who, where (a map link or "Unknown") and
\* the live link, which carries the share token
smsBody(displayName, location, shareToken) ==
    [displayName |-> displayName,
     coordinateText |-> IF IsNone(location) THEN None
                        ELSE Some(<<Val(location).latitude, Val(location).longitude>>),
     liveURL |-> shareToken]

\* normalizedContacts.map((c) => c.phone)
recipientPhones(contacts) == [i \in 1..Len(contacts) |-> contacts[i].phone]

\* one call of sendSOSMessage up to its first await: without a configured
\* client nothing is requested; otherwise client.messages.create is in
\* flight.  requests counts the calls of client.messages.create.
sendSOSMessage(to, body) ==
    IF ~twilio
    THEN [to |-> to, body |-> body, state |-> "skipped", requests |-> 0]
    ELSE [to |-> to, body |-> body, state |-> "pending", requests |-> 1]

\* recipients.map((to) => sendSOSMessage(to, body)), for a non-empty array
broadcastSOSMessage(recipients, body) ==
    [recipients |-> recipients,
     sends |-> [i \in 1..Len(recipients) |-> sendSOSMessage(recipients[i], body)]]

\* if (recipientPhones.length > 0) broadcastSOSMessage(...) else console.warn
Dispatch(outbox, sosId, recipients, body) ==
    IF Len(recipients) > 0
    THEN MapSet(outbox, sosId, broadcastSOSMessage(recipients, body))
    ELSE outbox

-----------------------------------------------------------------------------
(* Helpers of the update, end and read handlers *)

\* mutant: an update of a session whose link has expired records nothing
PushLocationUnlessExpired(session, location) ==
    IF now > DateParse(session.expiresAt) THEN session
    ELSE [session EXCEPT !.lastLocation = Some(location),
                         !.locationHistory = Append(@, location)]

\* mutant: an update renews the live link for another TTL
PushLocationRenews(session, location) ==
    [session EXCEPT !.lastLocation = Some(location),
                    !.locationHistory = Append(@, location),
                    !.expiresAt = toISOString(now + LIVE_LINK_TTL_MS)]

\* mutant: an update appends to the history and leaves lastLocation
PushLocationHistoryOnly(session, location) ==
    [session EXCEPT !.locationHistory = Append(@, location)]

\* mutant: an update makes the session active again
PushLocationReactivates(session, location) ==
    [session EXCEPT !.lastLocation = Some(location),
                    !.locationHistory = Append(@, location),
                    !.status = "active"]

\* mutant: an update also moves startedAt to the update's timestamp
PushLocationMovesStartedAt(session, location) ==
    [session EXCEPT !.lastLocation = Some(location),
                    !.locationHistory = Append(@, location),
                    !.startedAt = location.timestamp]

\* session.lastLocation = location; session.locationHistory.push(location)
PushLocation(session, location) ==
    [session EXCEPT !.lastLocation = Some(location),
                    !.locationHistory = Append(@, location)]

\* mutant: ending first clears endedAt
MarkEndedClearsEndedAt(session, reason) ==
    [session EXCEPT !.status = "ended",
                    !.endReason = Some(IF reason = "" THEN "unknown" ELSE reason),
                    !.endedAt = None]

\* session.status = "ended"; session.endReason = reason || "unknown"
MarkEnded(session, reason) ==
    [session EXCEPT !.status = "ended",
                    !.endReason = Some(IF reason = "" THEN "unknown" ELSE reason)]

\* mutant: endedAt is assigned only while it is null
SetEndedAtOnce(session, iso) ==
    IF IsNone(session.endedAt) THEN [session EXCEPT !.endedAt = Some(iso)] ELSE session

\* session.endedAt = <ISO string>
SetEndedAt(session, iso) == [session EXCEPT !.endedAt = Some(iso)]

\* mutant: the link is already expired at the instant expiresAt
IsExpiredAtExpiry(expiry, clock) == expiry # 0 /\ clock >= expiry

\* expiry && now > expiry
IsExpired(expiry, clock) == expiry # 0 /\ clock > expiry

\* mutant: only the share token is stripped
PublicSessionWithContacts(session) ==
    [f \in DOMAIN session \ {"shareToken"} |-> session[f]]

\* const { shareToken, contacts, ...publicSession } = session
PublicSession(session) ==
    [f \in DOMAIN session \ {"shareToken", "contacts"} |-> session[f]]

\* the location a successful update records
UpdateLocation(latitude, longitude, updatedAt) ==
    [latitude |-> latitude, longitude |-> longitude,
     timestamp |-> toISOString(IF Truthy(updatedAt) THEN NewDate(updatedAt) ELSE now)]

-----------------------------------------------------------------------------
(* Responses *)

NoBody == [none |-> TRUE]
Error(text) == [error |-> text]
Success == [success |-> TRUE]
Response(op, key, status, body) ==
    [op |-> op, key |-> key, status |-> status, body |-> body]

\* a handler that threw: the handler's earlier assignments stay and the
\* request is not answered with success (500 from Express's error handler)
Thrown(op, key) == Response(op, key, 500, Error("RangeError: Invalid time value"))

Init ==
    /\ sessions = <<>>
    /\ tokenToSosId = <<>>
    /\ now = 0
    /\ last = Response("boot", 0, 0, NoBody)
    /\ accepted = <<>>
    /\ twilio = TRUE
    /\ sms = <<>>

-----------------------------------------------------------------------------
(* POST /api/sos/start *)

StartRejected(displayName, startedAt) ==
    /\ ~Valid(displayName, startedAt)
    /\ last' = Response("start", 0, 400, Error("displayName and startedAt required"))
    /\ UNCHANGED <<sessions, tokenToSosId, now, accepted, twilio, sms>>

StartThrows(displayName, startedAt) ==
    /\ Valid(displayName, startedAt)
    /\ Throws(NewDate(startedAt))
    /\ last' = Thrown("start", 0)
    /\ UNCHANGED <<sessions, tokenToSosId, now, accepted, twilio, sms>>

StartCreated(displayName, latitude, longitude, startedAt, contacts) ==
    /\ Valid(displayName, startedAt)
    /\ ~Throws(NewDate(startedAt))
    /\ Ids \ DOMAIN sessions # {}
    /\ Tokens \ DOMAIN tokenToSosId # {}
    /\ LET sosId == uuidv4
           shareToken == generateShareToken
           session == NewSession(sosId, shareToken, displayName, latitude,
                                 longitude, startedAt, contacts)
       IN /\ sessions' = MapSet(sessions, sosId, session)
          /\ tokenToSosId' = MapSet(tokenToSosId, shareToken, sosId)
          /\ sms' = Dispatch(sms, sosId, recipientPhones(session.contacts),
                             smsBody(displayName, session.lastLocation, shareToken))
          /\ last' = Response("start", sosId, 200,
                              [sosId |-> sosId, shareToken |-> shareToken])
          /\ accepted' = MapSet(accepted, sosId,
                [withLocation |-> ~IsNone(latitude) /\ ~IsNone(longitude),
                 startedAt |-> startedAt,
                 createdAt |-> now,
                 shareToken |-> shareToken,
                 contacts |-> contacts,
                 updates |-> <<>>,
                 reEnded |-> FALSE])
    /\ UNCHANGED <<now, twilio>>

Start(displayName, latitude, longitude, startedAt, contacts) ==
    \/ StartRejected(displayName, startedAt)
    \/ StartThrows(displayName, startedAt)
    \/ StartCreated(displayName, latitude, longitude, startedAt, contacts)

-----------------------------------------------------------------------------
(* POST /api/sos/update *)

RECURSIVE SumLen(_)
SumLen(S) ==
    IF S = {} THEN 0
    ELSE LET id == CHOOSE x \in S : TRUE
         IN Len(sessions[id].locationHistory) + SumLen(S \ {id})

\* the location records the store holds, over all sessions
StoredLocations == SumLen(DOMAIN sessions)

\* mutant: the session is looked up before sosId is checked for presence
UpdateRejectedLookupFirst(sosId) ==
    /\ sosId \notin DOMAIN sessions
    /\ last' = Response("update", sosId, 404, Error("SOS not found"))
    /\ UNCHANGED <<sessions, tokenToSosId, now, accepted, twilio, sms>>

UpdateRejected(sosId) ==
    /\ \/ sosId = 0 /\ last' = Response("update", sosId, 400, Error("sosId required"))
       \/ sosId # 0 /\ sosId \notin DOMAIN sessions
          /\ last' = Response("update", sosId, 404, Error("SOS not found"))
    /\ UNCHANGED <<sessions, tokenToSosId, now, accepted, twilio, sms>>

UpdateThrows(sosId, updatedAt) ==
    /\ sosId # 0 /\ sosId \in DOMAIN sessions
    /\ Truthy(updatedAt) /\ Throws(NewDate(updatedAt))
    /\ last' = Thrown("update", sosId)
    /\ UNCHANGED <<sessions, tokenToSosId, now, accepted, twilio, sms>>

UpdateApplied(sosId, latitude, longitude, updatedAt) ==
    /\ sosId # 0 /\ sosId \in DOMAIN sessions
    /\ ~(Truthy(updatedAt) /\ Throws(NewDate(updatedAt)))
    /\ StoredLocations < MaxHistory
    /\ LET location == UpdateLocation(latitude, longitude, updatedAt)
       IN /\ sessions' = [sessions EXCEPT ![sosId] = PushLocation(@, location)]
          /\ accepted' = [accepted EXCEPT ![sosId].updates =
                Append(@, [latitude |-> latitude, longitude |-> longitude,
                           updatedAt |-> updatedAt, handledAt |-> now])]
    /\ last' = Response("update", sosId, 200, Success)
    /\ UNCHANGED <<tokenToSosId, now, twilio, sms>>

Update(sosId, latitude, longitude, updatedAt) ==
    \/ UpdateRejected(sosId)
    \/ UpdateThrows(sosId, updatedAt)
    \/ UpdateApplied(sosId, latitude, longitude, updatedAt)

-----------------------------------------------------------------------------
(* POST /api/sos/end *)

EndRejected(sosId) ==
    /\ \/ sosId = 0 /\ last' = Response("end", sosId, 400, Error("sosId required"))
       \/ sosId # 0 /\ sosId \notin DOMAIN sessions
          /\ last' = Response("end", sosId, 404, Error("SOS not found"))
    /\ UNCHANGED <<sessions, tokenToSosId, now, accepted, twilio, sms>>

\* status and endReason are assigned before new Date(endedAt).toISOString()
\* throws
EndThrows(sosId, endedAt, reason) ==
    /\ sosId # 0 /\ sosId \in DOMAIN sessions
    /\ Truthy(endedAt) /\ Throws(NewDate(endedAt))
    /\ sessions' = [sessions EXCEPT ![sosId] = MarkEnded(@, reason)]
    /\ last' = Thrown("end", sosId)
    /\ UNCHANGED <<tokenToSosId, now, accepted, twilio, sms>>

EndApplied(sosId, endedAt, reason) ==
    /\ sosId # 0 /\ sosId \in DOMAIN sessions
    /\ ~(Truthy(endedAt) /\ Throws(NewDate(endedAt)))
    /\ LET iso == toISOString(IF Truthy(endedAt) THEN NewDate(endedAt) ELSE now)
       IN sessions' = [sessions EXCEPT ![sosId] = SetEndedAt(MarkEnded(@, reason), iso)]
    /\ last' = Response("end", sosId, 200, Success)
    /\ accepted' = [accepted EXCEPT ![sosId].reEnded =
                        @ \/ sessions[sosId].status = "ended"]
    /\ UNCHANGED <<tokenToSosId, now, twilio, sms>>

End(sosId, endedAt, reason) ==
    \/ EndRejected(sosId)
    \/ EndThrows(sosId, endedAt, reason)
    \/ EndApplied(sosId, endedAt, reason)

-----------------------------------------------------------------------------
(* GET /api/live/token/:token *)

ReadResponse(token) ==
    IF token \notin DOMAIN tokenToSosId
    THEN Response("read", token, 404, Error("Live link not found"))
    ELSE IF tokenToSosId[token] \notin DOMAIN sessions
    THEN Response("read", token, 404, Error("SOS not found"))
    ELSE LET session == sessions[tokenToSosId[token]]
         IN IF IsExpired(DateParse(session.expiresAt), now)
            THEN Response("read", token, 410, Error("Live link expired"))
            ELSE Response("read", token, 200, PublicSession(session))

Read(token) ==
    /\ last' = ReadResponse(token)
    /\ UNCHANGED <<sessions, tokenToSosId, now, accepted, twilio, sms>>

-----------------------------------------------------------------------------
(* The server clock *)

Tick(d) ==
    /\ now + d <= LIVE_LINK_TTL_MS + MaxSkew
    /\ d = 1 => now >= LIVE_LINK_TTL_MS
    /\ now' = now + d
    /\ last' = Response("tick", 0, 0, NoBody)
    /\ UNCHANGED <<sessions, tokenToSosId, accepted, twilio, sms>>

-----------------------------------------------------------------------------
(* The SMS provider settles a request of sendSOSMessage *)

Pending(sosId, i) ==
    /\ sosId \in DOMAIN sms
    /\ i \in DOMAIN sms[sosId].sends
    /\ sms[sosId].sends[i].state = "pending"

\* await client.messages.create(...) returns: the send is logged as sent
SendDelivered(sosId, i) ==
    /\ Pending(sosId, i)
    /\ sms' = [sms EXCEPT ![sosId].sends[i].state = "sent"]
    /\ last' = Response("sms", sosId, 0, NoBody)
    /\ UNCHANGED <<sessions, tokenToSosId, now, accepted, twilio>>

\* mutant: a failed request is issued once more before the send gives up
SendFailedRetries(sosId, i) ==
    /\ Pending(sosId, i)
    /\ sms' = IF sms[sosId].sends[i].requests < 2
              THEN [sms EXCEPT ![sosId].sends[i].requests = @ + 1]
              ELSE [sms EXCEPT ![sosId].sends[i].state = "failed"]
    /\ last' = Response("sms", sosId, 0, NoBody)
    /\ UNCHANGED <<sessions, tokenToSosId, now, accepted, twilio>>

\* mutant: a failed send takes the session and its token back out
SendFailedRollsBack(sosId, i) ==
    /\ Pending(sosId, i)
    /\ sms' = [sms EXCEPT ![sosId].sends[i].state = "failed"]
    /\ sessions' = [id \in DOMAIN sessions \ {sosId} |-> sessions[id]]
    /\ tokenToSosId' = [t \in DOMAIN tokenToSosId \ {sessions[sosId].shareToken} |->
                            tokenToSosId[t]]
    /\ last' = Response("sms", sosId, 0, NoBody)
    /\ UNCHANGED <<now, accepted, twilio>>

\* await client.messages.create(...) throws: caught and logged, nothing else
SendFailed(sosId, i) ==
    /\ Pending(sosId, i)
    /\ sms' = [sms EXCEPT ![sosId].sends[i].state = "failed"]
    /\ last' = Response("sms", sosId, 0, NoBody)
    /\ UNCHANGED <<sessions, tokenToSosId, now, accepted, twilio>>

-----------------------------------------------------------------------------

\* One client: a single session is started, and the clock runs.
Next ==
    \/ \E displayName \in DisplayNames, latitude \in Coords, longitude \in Coords,
          startedAt \in TimeInputs, contacts \in ContactInputs :
          /\ DOMAIN sessions = {}
          /\ Start(displayName, latitude, longitude, startedAt, contacts)
    \/ \E sosId \in SosIdInputs(1), body \in UpdateBodies :
          Update(sosId, body.latitude, body.longitude, body.updatedAt)
    \/ \E sosId \in SosIdInputs(1), body \in EndBodies :
          End(sosId, body.endedAt, body.reason)
    \/ \E token \in TokenInputs(1) : Read(token)
    \/ \E d \in {1, LIVE_LINK_TTL_MS} : Tick(d)

Spec == Init /\ [][Next]_vars

\* Several clients within one millisecond: up to MaxSessions sessions.
NextPair ==
    \/ \E displayName \in DisplayNames, latitude \in Coords,
          startedAt \in TimeInputs, contacts \in ContactInputs :
          Start(displayName, latitude, Some(7), startedAt, contacts)
    \/ \E sosId \in SosIdInputs(MaxSessions), updatedAt \in {AbsentTime, GarbageTime} :
          Update(sosId, Some(7), Some(7), updatedAt)
    \/ \E sosId \in SosIdInputs(MaxSessions), endedAt \in {AbsentTime, GarbageTime} :
          End(sosId, endedAt, "")
    \/ \E token \in TokenInputs(MaxSessions) : Read(token)

SpecPair == Init /\ [][NextPair]_vars

\* Two clients, the second starting once the link of the first has expired.
NextExpiry ==
    \/ \E startedAt \in TimeInputs, contacts \in ContactInputs :
          /\ \A id \in DOMAIN sessions :
                /\ DOMAIN sessions = {id}
                /\ IsExpired(DateParse(sessions[id].expiresAt), now)
          /\ Start("Alice", Some(7), Some(7), startedAt, contacts)
    \/ \E sosId \in SosIdInputs(MaxSessions), updatedAt \in {AbsentTime, GarbageTime} :
          Update(sosId, Some(7), Some(7), updatedAt)
    \/ \E sosId \in SosIdInputs(MaxSessions), endedAt \in {AbsentTime, GarbageTime} :
          End(sosId, endedAt, "")
    \/ \E token \in TokenInputs(MaxSessions) : Read(token)
    \/ \E d \in {1, LIVE_LINK_TTL_MS} : Tick(d)

SpecExpiry == Init /\ [][NextExpiry]_vars

\* the SMS service is loaded with or without Twilio credentials
InitNotify ==
    /\ sessions = <<>>
    /\ tokenToSosId = <<>>
    /\ now = 0
    /\ last = Response("boot", 0, 0, NoBody)
    /\ accepted = <<>>
    /\ twilio \in BOOLEAN
    /\ sms = <<>>

\* Starts with contacts, and the SMS provider settling the sends in any
\* order, or never.
NextNotify ==
    \/ \E displayName \in DisplayNames, startedAt \in TimeInputs,
          contacts \in NotifyContactInputs :
          Start(displayName, Some(7), Some(7), startedAt, contacts)
    \/ \E sosId \in DOMAIN sms : \E i \in DOMAIN sms[sosId].sends :
          SendDelivered(sosId, i)
    \/ \E sosId \in DOMAIN sms : \E i \in DOMAIN sms[sosId].sends :
          SendFailed(sosId, i)
    \/ \E token \in TokenInputs(MaxSessions) : Read(token)

SpecNotify == InitNotify /\ [][NextNotify]_vars

-----------------------------------------------------------------------------
(* Vocabulary of the properties *)

Stored == DOMAIN sessions

\* the timestamp field of a request is absent or denotes an instant
WellFormed(t) == ~(Truthy(t) /\ Throws(NewDate(t)))

\* the instant a request's optional timestamp stands for when handled at `at`
Instant(t, at) == IF Truthy(t) THEN NewDate(t) ELSE at

\* the session ids a start has returned with share token `token`
IssuedFor(token) == {id \in DOMAIN accepted : accepted[id].shareToken = token}

\* the location record an accepted update call asks for
Requested(u) ==
    [latitude |-> u.latitude, longitude |-> u.longitude,
     timestamp |-> toISOString(Instant(u.updatedAt, u.handledAt))]

\* the step is a handler answering `status` to a request of kind `op` on `key`
Answered(op, key, status) ==
    last'.op = op /\ last'.key = key /\ last'.status = status

\* the states of the sends of the broadcast of session `id`
SendStates(id) == {sms[id].sends[i].state : i \in DOMAIN sms[id].sends}

\* an entry of the contacts input that is not null and whose phone is a
\* string that is not empty after trimming
Usable(e) == ~e.null /\ ~IsNone(e.phone) /\ Trim(Val(e.phone)) # <<>>

\* the usable entries of the contacts input, in input order
UsableEntries(contacts) ==
    IF contacts.isArray THEN SelectSeq(contacts.items, Usable) ELSE <<>>

\* an input entry as it was given, and as { name, phone } with both trimmed
AsGiven(e) == [name |-> e.name, phone |-> Val(e.phone)]
AsTrimmed(e) ==
    [name |-> IF IsNone(e.name) THEN None ELSE Some(Trim(Val(e.name))),
     phone |-> Trim(Val(e.phone))]

\* a read by `token` is answered 410 in the current state
Gone(token) == ReadResponse(token).status = 410

SessionFields ==
    {"sosId", "displayName", "status", "startedAt", "lastLocation",
     "locationHistory", "endedAt", "endReason", "shareToken", "expiresAt",
     "contacts"}

-----------------------------------------------------------------------------
(* C2: locationHistory holds, in the order the calls were handled, the       *)
(* initial location (when the start gave both latitude and longitude)        *)
(* followed by one record per update that returned success, so its length is *)
(* the number of successful updates plus 1 or 0; and the length never        *)
(* decreases.                                                                *)

C2_HistoryIsAcceptedCalls ==
    \A id \in Stored :
        LET h == sessions[id].locationHistory
            a == accepted[id]
            k == IF a.withLocation THEN 1 ELSE 0
        IN /\ Len(h) = Len(a.updates) + k
           /\ k = 1 => h[1].timestamp = toISOString(NewDate(a.startedAt))
           /\ \A i \in 1..Len(a.updates) : h[i + k] = Requested(a.updates[i])

C2_NeverShrinks ==
    \A id \in Stored :
        /\ id \in DOMAIN sessions'
        /\ Len(sessions'[id].locationHistory) >= Len(sessions[id].locationHistory)

C2_LocationHistory == []C2_HistoryIsAcceptedCalls /\ [][C2_NeverShrinks]_vars

\* a session started with a location that then accepted an update
C2_Witness ==
    \E id \in Stored :
        /\ accepted[id].withLocation
        /\ Len(accepted[id].updates) = 1
        /\ sessions[id].locationHistory[1] # sessions[id].locationHistory[2]
        /\ last.op = "update" /\ last.status = 200

-----------------------------------------------------------------------------
(* C3: an ended session stays ended in every later state; a read that        *)
(* answers 200 for it shows status "ended"; and an update on it whose        *)
(* updatedAt is absent or a date is answered 200 and appends its location    *)
(* while the status stays "ended". (An updatedAt that is no date makes the   *)
(* update handler throw whatever the status is.)                             *)

C3_StaysEnded ==
    \A id \in Stored :
        sessions[id].status = "ended" =>
            id \in DOMAIN sessions' /\ sessions'[id].status = "ended"

C3_ReadShowsEnded ==
    \A token \in DOMAIN tokenToSosId :
        /\ last.op = "read" /\ last.key = token /\ last.status = 200
        /\ sessions[tokenToSosId[token]].status = "ended"
        => last.body.status = "ended"

C3_UpdateAfterEnd ==
    \A id \in Stored : \A body \in UpdateBodies :
        /\ sessions[id].status = "ended"
        /\ WellFormed(body.updatedAt)
        /\ Update(id, body.latitude, body.longitude, body.updatedAt)
        => /\ last'.status = 200
           /\ sessions'[id].status = "ended"
           /\ sessions'[id].locationHistory =
                Append(sessions[id].locationHistory,
                       [latitude |-> body.latitude, longitude |-> body.longitude,
                        timestamp |-> toISOString(Instant(body.updatedAt, now))])

C3_EndedIsFinal ==
    /\ []C3_ReadShowsEnded
    /\ [][C3_StaysEnded /\ C3_UpdateAfterEnd]_vars

\* an update was accepted by a session whose end call had returned success
C3_Witness ==
    \E id \in Stored :
        /\ sessions[id].status = "ended"
        /\ ~IsNone(sessions[id].endedAt)
        /\ last.op = "update" /\ last.key = id /\ last.status = 200
        /\ Val(sessions[id].lastLocation).timestamp # Val(sessions[id].endedAt)

-----------------------------------------------------------------------------
(* C4: a read by share token answers 404 when no start ever returned the     *)
(* token, 410 when the token was issued and the clock is past the session's  *)
(* expiresAt (whatever the status), and 200 with the snapshot otherwise,     *)
(* the instant equal to expiresAt included.                                  *)

C4_ReadByToken ==
    last.op = "read" =>
        IF IssuedFor(last.key) = {}
        THEN last.status = 404
        ELSE \A id \in IssuedFor(last.key) :
                IF now > DateParse(sessions[id].expiresAt)
                THEN last.status = 410
                ELSE /\ last.status = 200
                     /\ last.body.sosId = id

\* an expired read of a session that is still active
C4_Witness ==
    /\ last.op = "read" /\ last.status = 410
    /\ \E id \in IssuedFor(last.key) : sessions[id].status = "active"

-----------------------------------------------------------------------------
(* C5: a read that answers 200 returns a record without the shareToken and   *)
(* contacts fields that has every other field of the session, unchanged.     *)

C5_PublicSnapshot ==
    last.op = "read" /\ last.status = 200 =>
        \A id \in IssuedFor(last.key) :
            /\ DOMAIN last.body = SessionFields \ {"shareToken", "contacts"}
            /\ \A f \in DOMAIN last.body : last.body[f] = sessions[id][f]

\* a successful read of a session that has contacts
C5_Witness ==
    /\ last.op = "read" /\ last.status = 200
    /\ \E id \in IssuedFor(last.key) : sessions[id].contacts # <<>>

-----------------------------------------------------------------------------
(* C6: in every reachable state a session has endedAt and endReason both set *)
(* exactly when its status is "ended", and an active session has both null.  *)
(* An end call whose endedAt is no date breaks it: status and endReason are  *)
(* assigned before the conversion throws.                                    *)

C6_EndFieldsIffEnded ==
    \A id \in Stored :
        /\ sessions[id].status = "ended" <=>
              ~IsNone(sessions[id].endedAt) /\ ~IsNone(sessions[id].endReason)
        /\ sessions[id].status = "active" =>
              IsNone(sessions[id].endedAt) /\ IsNone(sessions[id].endReason)

-----------------------------------------------------------------------------
(* C7 as stated: once endedAt is non-null it keeps its value in every later  *)
(* state. A second successful end call overwrites it.                        *)

C7_EndedAtKeptStep ==
    \A id \in Stored :
        ~IsNone(sessions[id].endedAt) =>
            id \in DOMAIN sessions' /\ sessions'[id].endedAt = sessions[id].endedAt

C7_EndedAtSetOnce == [][C7_EndedAtKeptStep]_vars

(* C7 amended: once endedAt is non-null it never becomes null again, and the *)
(* only step that changes its value is an end call on that session that      *)
(* returns success.                                                          *)

C7_EndedAtOnlyByEndStep ==
    \A id \in Stored :
        ~IsNone(sessions[id].endedAt) =>
            /\ id \in DOMAIN sessions'
            /\ ~IsNone(sessions'[id].endedAt)
            /\ sessions'[id].endedAt # sessions[id].endedAt => Answered("end", id, 200)

C7_EndedAtOnlyByEnd == [][C7_EndedAtOnlyByEndStep]_vars

\* an end call failed on a session whose endedAt was set: it is still set
C7_Witness ==
    \E id \in Stored :
        /\ last.op = "end" /\ last.key = id /\ last.status = 500
        /\ ~IsNone(sessions[id].endedAt)

-----------------------------------------------------------------------------
(* C8: an end call (endedAt absent or a date) on a session that is already   *)
(* ended is answered 200 and applies the mutation again: status stays        *)
(* "ended", endedAt becomes the call's endedAt, or the clock when absent,    *)
(* and endReason becomes the call's reason, or "unknown" when absent.        *)

C8_ReEndStep ==
    \A id \in Stored : \A body \in EndBodies :
        /\ sessions[id].status = "ended"
        /\ WellFormed(body.endedAt)
        /\ End(id, body.endedAt, body.reason)
        => /\ last'.status = 200
           /\ sessions'[id].status = "ended"
           /\ ~IsNone(sessions'[id].endedAt)
           /\ DateParse(Val(sessions'[id].endedAt)) = Instant(body.endedAt, now)
           /\ sessions'[id].endReason =
                Some(IF body.reason = "" THEN "unknown" ELSE body.reason)

C8_ReEndReapplies == [][C8_ReEndStep]_vars

\* a session ended twice, the second call being the last request
C8_Witness ==
    \E id \in Stored :
        /\ accepted[id].reEnded
        /\ last.op = "end" /\ last.key = id /\ last.status = 200

-----------------------------------------------------------------------------
(* C9: an update that returns success changes only lastLocation and          *)
(* locationHistory of the addressed session, an end that returns success     *)
(* only its status, endedAt and endReason; the other fields of that session, *)
(* every other session and the token index stay as they were, and no step    *)
(* removes a session.                                                        *)

FrameStep(id, mutable) ==
    /\ DOMAIN sessions' = DOMAIN sessions
    /\ \A f \in SessionFields \ mutable : sessions'[id][f] = sessions[id][f]
    /\ \A other \in Stored \ {id} : sessions'[other] = sessions[other]
    /\ tokenToSosId' = tokenToSosId

C9_FrameStep ==
    /\ \A id \in Stored :
          /\ Answered("update", id, 200) =>
                FrameStep(id, {"lastLocation", "locationHistory"})
          /\ Answered("end", id, 200) =>
                FrameStep(id, {"status", "endedAt", "endReason"})
    /\ Stored \subseteq DOMAIN sessions'

C9_Frame == [][C9_FrameStep]_vars

\* two sessions, one ended and the other just updated
C9_Witness ==
    \E id \in Stored : \E other \in Stored \ {id} :
        /\ last.op = "update" /\ last.key = id /\ last.status = 200
        /\ sessions[id].status = "active"
        /\ sessions[other].status = "ended"

-----------------------------------------------------------------------------
(* C10: expiresAt is the server clock at the start call plus the 6-hour TTL, *)
(* whatever startedAt the client gave, in every later state.                 *)

C10_ExpiresAtFixed ==
    \A id \in Stored :
        DateParse(sessions[id].expiresAt) = accepted[id].createdAt + LIVE_LINK_TTL_MS

\* a session created at a clock other than its startedAt, later updated and
\* ended, after the clock moved
C10_Witness ==
    \E id \in Stored :
        /\ NewDate(accepted[id].startedAt) # accepted[id].createdAt
        /\ now > accepted[id].createdAt
        /\ sessions[id].status = "ended"
        /\ sessions[id].locationHistory # <<>>

-----------------------------------------------------------------------------
(* C11: a start call whose displayName or startedAt is missing is answered  *)
(* 400 and leaves the session table and the token index as they were and    *)
(* issues no broadcast.                                                     *)

C11_RejectStep ==
    \A displayName \in DisplayNames, startedAt \in TimeInputs,
       contacts \in NotifyContactInputs :
        (displayName = "" \/ startedAt = AbsentTime)
        /\ Start(displayName, Some(7), Some(7), startedAt, contacts)
        => /\ Answered("start", 0, 400)
           /\ last'.body = Error("displayName and startedAt required")
           /\ UNCHANGED <<sessions, tokenToSosId, sms>>

C11_MissingFieldRejected == [][C11_RejectStep]_vars

\* a start was rejected while a session and its broadcast were in the store
C11_Witness ==
    /\ last.op = "start" /\ last.status = 400
    /\ Stored # {}
    /\ DOMAIN sms # {}

-----------------------------------------------------------------------------
(* C12: an update or end call without a sosId is answered 400; one whose    *)
(* sosId names no stored session is answered 404; both leave every session  *)
(* and the token index as they were.  A call whose sosId an earlier start    *)
(* returned is never answered 404.                                           *)

C12_RejectStep ==
    \A op \in {"update", "end"}, sosId \in SosIdInputs(MaxSessions) :
        last'.op = op /\ last'.key = sosId
        => /\ sosId = 0
              => last'.status = 400 /\ last'.body = Error("sosId required")
           /\ sosId # 0 /\ sosId \notin Stored
              => last'.status = 404 /\ last'.body = Error("SOS not found")
           /\ sosId \in DOMAIN accepted => last'.status \notin {400, 404}
           /\ last'.status \in {400, 404} => UNCHANGED <<sessions, tokenToSosId>>

C12_UnknownRejected == [][C12_RejectStep]_vars

\* an end call with an unknown sosId was answered 404 while another session
\* was stored and had a location history
C12_Witness ==
    /\ last.op = "end" /\ last.status = 404
    /\ \E id \in Stored : Len(sessions[id].locationHistory) > 1

-----------------------------------------------------------------------------
(* C13: a valid start call is answered { sosId, shareToken } while none of  *)
(* its sends has completed; whether the sends then succeed, fail or never   *)
(* finish, the answer is that success response and the session and its      *)
(* token-index entry stay stored.                                           *)

\* the answer to a valid start is success, given before any send completes
C13_StartStep ==
    \A displayName \in DisplayNames \ {""}, startedAt \in TimeInputs \ {AbsentTime},
       contacts \in NotifyContactInputs :
        WellFormed(startedAt)
        /\ Start(displayName, Some(7), Some(7), startedAt, contacts)
        => /\ last'.status = 200
           /\ last'.key \in DOMAIN sessions' \ Stored
           /\ last'.body = [sosId |-> last'.key,
                            shareToken |-> sessions'[last'.key].shareToken]
           /\ tokenToSosId'[last'.body.shareToken] = last'.key
           /\ last'.key \in DOMAIN sms'
              => \A i \in DOMAIN sms'[last'.key].sends :
                    sms'[last'.key].sends[i].state \notin {"sent", "failed"}

\* a send that completes touches neither the store nor what was answered
C13_SendStep ==
    sms' # sms /\ DOMAIN sms' = DOMAIN sms
    => UNCHANGED <<sessions, tokenToSosId, accepted>>

\* whatever became of the sends, what a start returned is stored
C13_Kept ==
    \A id \in DOMAIN accepted :
        /\ id \in Stored
        /\ sessions[id].shareToken = accepted[id].shareToken
        /\ accepted[id].shareToken \in DOMAIN tokenToSosId
        /\ tokenToSosId[accepted[id].shareToken] = id

C13_ResponseBeforeSends == []C13_Kept /\ [][C13_StartStep /\ C13_SendStep]_vars

\* of one broadcast a send has failed, one was delivered, and the session is
\* read by its token; of another session the send never finished
C13_Witness ==
    /\ \E id \in DOMAIN sms : {"failed", "sent"} \subseteq SendStates(id)
    /\ \E id \in DOMAIN sms : SendStates(id) = {"pending"}
    /\ last.op = "read" /\ last.status = 200
    /\ last.key \in DOMAIN tokenToSosId
    /\ {"failed", "sent"} \subseteq SendStates(tokenToSosId[last.key])

-----------------------------------------------------------------------------
(* C14: a start whose normalized contact list has k >= 1 phones calls the   *)
(* send once for each of the k phones, in order; a send issues at most one  *)
(* provider request (exactly one with a configured client); the failure of  *)
(* one send leaves every other send as it was; a failed send stays failed.  *)

\* one send per phone of the stored list, each with a single request
C14_OnePerPhone ==
    \A id \in Stored :
        Len(sessions[id].contacts) >= 1
        => /\ id \in DOMAIN sms
           /\ Len(sms[id].sends) = Len(sessions[id].contacts)
           /\ \A i \in DOMAIN sms[id].sends :
                 /\ sms[id].sends[i].to = sessions[id].contacts[i].phone
                 /\ sms[id].sends[i].requests = (IF twilio THEN 1 ELSE 0)
                 /\ sms[id].sends[i].state = "skipped" <=> ~twilio

\* a step changes at most one send; a settled send never changes again and
\* no request is ever added
C14_IsolatedStep ==
    \A id \in DOMAIN sms :
        /\ id \in DOMAIN sms' /\ DOMAIN sms'[id].sends = DOMAIN sms[id].sends
        /\ \A i \in DOMAIN sms[id].sends :
              /\ sms[id].sends[i].state # "pending" => sms'[id].sends[i] = sms[id].sends[i]
              /\ sms'[id].sends[i].requests = sms[id].sends[i].requests
              /\ sms'[id].sends[i].state = "failed" /\ sms[id].sends[i].state # "failed"
                 => /\ \A j \in DOMAIN sms[id].sends \ {i} :
                          sms'[id].sends[j] = sms[id].sends[j]
                    /\ \A other \in DOMAIN sms \ {id} : sms'[other] = sms[other]

C14_SendsIndependent == []C14_OnePerPhone /\ [][C14_IsolatedStep]_vars

\* of the two sends of one broadcast the first has failed and the second was
\* delivered
C14_Witness ==
    /\ last.op = "sms"
    /\ last.key \in DOMAIN sms
    /\ Len(sms[last.key].sends) = 2
    /\ sms[last.key].sends[1].state = "failed"
    /\ sms[last.key].sends[2].state = "sent"

-----------------------------------------------------------------------------
(* C15: the stored contacts are the input contacts, in input order, minus   *)
(* every entry that is null or whose phone is not a string or is empty      *)
(* after trimming; the broadcast goes to exactly the phones of the stored   *)
(* list, and there is no broadcast when that list is empty or contacts is   *)
(* not a list.                                                              *)

\* the broadcast of a session goes to the phones of its stored contacts, and
\* there is none when the stored list is empty
C15_BroadcastToStored ==
    \A id \in Stored :
        LET stored == sessions[id].contacts
        IN /\ stored = <<>> => id \notin DOMAIN sms
           /\ ~accepted[id].contacts.isArray => stored = <<>>
           /\ stored # <<>>
              => /\ id \in DOMAIN sms
                 /\ sms[id].recipients = [i \in 1..Len(stored) |-> stored[i].phone]
                 /\ \A i \in 1..Len(stored) : sms[id].sends[i].to = stored[i].phone

\* as stated: the stored entries are the usable input entries themselves
C15_StoredAsGiven ==
    /\ \A id \in Stored :
          LET usable == UsableEntries(accepted[id].contacts)
          IN sessions[id].contacts = [i \in 1..Len(usable) |-> AsGiven(usable[i])]
    /\ C15_BroadcastToStored

\* amended: the stored entries are the usable input entries with the phone
\* trimmed and the name trimmed, or null when it is not a string
C15_StoredTrimmed ==
    /\ \A id \in Stored :
          LET usable == UsableEntries(accepted[id].contacts)
          IN sessions[id].contacts = [i \in 1..Len(usable) |-> AsTrimmed(usable[i])]
    /\ C15_BroadcastToStored

\* one session keeps two of three input entries, in order, and its broadcast
\* has two sends; another was started with contacts that are not a list and
\* has no broadcast
C15_Witness ==
    /\ \E id \in Stored :
          /\ accepted[id].contacts.isArray
          /\ Len(accepted[id].contacts.items) = 3
          /\ Len(sessions[id].contacts) = 2
          /\ sessions[id].contacts[2].phone = <<"+", "2">>
          /\ Len(sms[id].sends) = 2
    /\ \E id \in Stored : ~accepted[id].contacts.isArray /\ id \notin DOMAIN sms

-----------------------------------------------------------------------------
(* C16: in every reachable state, lastLocation of a session is null exactly *)
(* when its locationHistory is empty, and otherwise is the last record of   *)
(* locationHistory, whatever the order of the update calls on the session.  *)

C16_LastIsEndOfHistory ==
    \A id \in Stored :
        LET history == sessions[id].locationHistory
            lastLocation == sessions[id].lastLocation
        IN /\ IsNone(lastLocation) <=> history = <<>>
           /\ history # <<>> => lastLocation = Some(history[Len(history)])

\* a session started without a location has taken two updates with
\* different timestamps
C16_Witness ==
    \E id \in Stored :
        /\ ~accepted[id].withLocation
        /\ Len(sessions[id].locationHistory) = 2
        /\ sessions[id].locationHistory[1] # sessions[id].locationHistory[2]

-----------------------------------------------------------------------------
(* C17: the token index and the session table agree: every index entry      *)
(* token -> sosId names a stored session whose shareToken is that token,    *)
(* and the shareToken of every stored session is an index key mapping to    *)
(* the session's sosId.  So a read with an indexed token is never answered  *)
(* "SOS not found", and a successful read returns the session the token was *)
(* issued for.                                                              *)

C17_IndexAgrees ==
    /\ \A token \in DOMAIN tokenToSosId :
          /\ tokenToSosId[token] \in Stored
          /\ sessions[tokenToSosId[token]].shareToken = token
    /\ \A id \in Stored :
          /\ sessions[id].shareToken \in DOMAIN tokenToSosId
          /\ tokenToSosId[sessions[id].shareToken] = id

C17_ReadStep ==
    last'.op = "read" /\ last'.key \in DOMAIN tokenToSosId
    => /\ last'.body # Error("SOS not found")
       /\ last'.status \in {200, 410}
       /\ last'.status = 200 => last'.body.sosId \in IssuedFor(last'.key)

C17_IndexAndStore == []C17_IndexAgrees /\ [][C17_ReadStep]_vars

\* with two sessions stored and the first ended, a read by the second
\* session's token returned the second session
C17_Witness ==
    /\ Cardinality(Stored) >= 2
    /\ last.op = "read" /\ last.status = 200
    /\ last.body.status = "active"
    /\ \E id \in Stored : sessions[id].status = "ended" /\ id # last.body.sosId

-----------------------------------------------------------------------------
(* C18: the clock never goes back, and once a read by a token has been      *)
(* answered 410, every later read by that token is answered 410: no update, *)
(* end or start makes the link readable again.                              *)

\* a read answered 410 was of a link that is gone
C18_GoneWhenAnswered == last.op = "read" /\ last.status = 410 => Gone(last.key)

\* a link that is gone stays gone over every step, and a read of it is
\* answered 410
C18_GoneStep ==
    /\ now' >= now
    /\ \A token \in TokenInputs(MaxSessions) :
          Gone(token)
          => /\ Gone(token)'
             /\ last'.op = "read" /\ last'.key = token => last'.status = 410

C18_GoneForGood == []C18_GoneWhenAnswered /\ [][C18_GoneStep]_vars

\* a read was answered 410 for a session that, after its link expired, was
\* updated and ended, and after which another session was started
C18_Witness ==
    /\ last.op = "read" /\ last.status = 410
    /\ LET id == tokenToSosId[last.key]
           expiry == DateParse(sessions[id].expiresAt)
       IN /\ \E i \in DOMAIN accepted[id].updates :
                accepted[id].updates[i].handledAt > expiry
          /\ sessions[id].status = "ended"
          /\ ~IsNone(sessions[id].endedAt)
          /\ DateParse(Val(sessions[id].endedAt)) > expiry
          /\ \E other \in Stored : accepted[other].createdAt > expiry

-----------------------------------------------------------------------------
(* C19: expiry gates only the read by token: an update or end call          *)
(* (timestamp absent or a date) on a session whose expiresAt has passed is  *)
(* answered success and changes the session as the same call does before    *)
(* expiry: the update appends its record and sets lastLocation, the end     *)
(* sets status, endReason and endedAt, and nothing else changes.            *)

C19_ExpiredStep ==
    \A id \in Stored :
        LET session == sessions[id]
        IN now > DateParse(session.expiresAt) /\ last'.key = id
           => /\ \A body \in UpdateBodies :
                    /\ WellFormed(body.updatedAt)
                    /\ Update(id, body.latitude, body.longitude, body.updatedAt)
                    => /\ last'.status = 200 /\ last'.body = Success
                       /\ LET record ==
                                [latitude |-> body.latitude,
                                 longitude |-> body.longitude,
                                 timestamp |-> toISOString(Instant(body.updatedAt, now))]
                          IN sessions'[id] =
                                [session EXCEPT
                                    !.lastLocation = Some(record),
                                    !.locationHistory = Append(@, record)]
              /\ \A body \in EndBodies :
                    /\ WellFormed(body.endedAt)
                    /\ End(id, body.endedAt, body.reason)
                    => /\ last'.status = 200 /\ last'.body = Success
                       /\ sessions'[id] =
                            [session EXCEPT
                                !.status = "ended",
                                !.endReason =
                                    Some(IF body.reason = "" THEN "unknown" ELSE body.reason),
                                !.endedAt =
                                    Some(toISOString(Instant(body.endedAt, now)))]

C19_ExpiryGatesOnlyRead == [][C19_ExpiredStep]_vars

\* after its link expired a session took an update and was then ended, the
\* end being the last request and answered success
C19_Witness ==
    /\ last.op = "end" /\ last.status = 200
    /\ LET id == last.key
           expiry == DateParse(sessions[id].expiresAt)
       IN /\ now > expiry
          /\ Gone(sessions[id].shareToken)
          /\ \E i \in DOMAIN accepted[id].updates :
                accepted[id].updates[i].handledAt > expiry
          /\ DateParse(Val(sessions[id].endedAt)) > expiry

=============================================================================
